---- MODULE Spec2Model ----
(***************************************************************************)
(* A model of bispy/spectral.py: the Periodogram and Multitaper spectral   *)
(* estimates of a bivariate signal held as a quaternion array, their       *)
(* Stokes parameters, the combination operators + and scalar *, and        *)
(* normalize().                                                            *)
(*                                                                         *)
(* Numbers.  A float is kept as an exact fraction <<n, d>> in lowest terms *)
(* with d > 0; <<0, 0>> is NaN (the mean of an empty slice).  A quaternion *)
(* a + i b + j c + k d is the tuple <<a, b, c, d>>, a complex number       *)
(* re + 1j im the tuple <<re, im>>.  Arrays are sequences, so Python's     *)
(* index 0 is index 1 here.  Signals, time axes and tapers take integer    *)
(* values, so the transform works on integers; the scaling by dt / N and   *)
(* the mean over tapers yield fractions.  Signals have two samples: the   *)
(* transform is exact on integers for lengths dividing 4.                  *)
(***************************************************************************)
EXTENDS Integers, Sequences, FiniteSets, TLC

\* ------------------------------------------------------------------ floats

Abs(n) == IF n < 0 THEN -n ELSE n

RECURSIVE Gcd(_, _)
Gcd(a, b) == IF b = 0 THEN a ELSE Gcd(b, a % b)

NaN == <<0, 0>>

IsNaN(r) == r[2] = 0

\* n / d as a float: lowest terms, positive denominator; x / 0 is not a number
Frac(n, d) ==
    IF d = 0 THEN NaN
    ELSE LET s == IF d < 0 THEN -1 ELSE 1
             g == Gcd(Abs(n), Abs(d))
         IN  <<(s * n) \div g, (s * d) \div g>>

Zero == Frac(0, 1)

FloatOf(n) == Frac(n, 1)

FAdd(a, b) == IF IsNaN(a) \/ IsNaN(b) THEN NaN
              ELSE Frac(a[1] * b[2] + b[1] * a[2], a[2] * b[2])

FMul(a, b) == IF IsNaN(a) \/ IsNaN(b) THEN NaN
              ELSE Frac(a[1] * b[1], a[2] * b[2])

FDiv(a, b) == IF IsNaN(a) \/ IsNaN(b) THEN NaN
              ELSE Frac(a[1] * b[2], a[2] * b[1])

\* a > b as IEEE compares: false as soon as one side is NaN
FGreater(a, b) == ~IsNaN(a) /\ ~IsNaN(b) /\ a[1] * b[2] > b[1] * a[2]

\* a < 0 as IEEE compares
FNegative(a) == ~IsNaN(a) /\ a[1] < 0

\* sqrt(r), exact: the non-negative root of r is the 3-tuple <<n, d, 2>>
\* (n/d to the power 1/2), and sqrt(0) is the float 0
FSqrt(r) == IF r = Zero THEN Zero ELSE <<r[1], r[2], 2>>

\* ------------------------------------------------------- complex, quaternion

CAdd(u, v) == <<u[1] + v[1], u[2] + v[2]>>

CMul(u, v) == <<u[1] * v[1] - u[2] * v[2], u[1] * v[2] + u[2] * v[1]>>

\* the Hamilton product of two quaternions with integer components
QMul(p, q) ==
    << p[1]*q[1] - p[2]*q[2] - p[3]*q[3] - p[4]*q[4],
       p[1]*q[2] + p[2]*q[1] + p[3]*q[4] - p[4]*q[3],
       p[1]*q[3] - p[2]*q[4] + p[3]*q[1] + p[4]*q[2],
       p[1]*q[4] + p[2]*q[3] - p[3]*q[2] + p[4]*q[1] >>

QConj(q) == <<q[1], -q[2], -q[3], -q[4]>>

\* quaternion.y, the unit j
QuatY == <<0, 0, 1, 0>>

\* np.norm of the quaternion package: the squared magnitude, a real
QNorm(q) == q[1]*q[1] + q[2]*q[2] + q[3]*q[3] + q[4]*q[4]

\* a real added to a quaternion lands on its real component
QAddReal(r, q) == <<r + q[1], q[2], q[3], q[4]>>

\* a float times an integer quaternion, component by component
QScale(r, q) == [c \in 1..4 |-> FMul(r, FloatOf(q[c]))]

\* a float times a float quaternion
QScaleF(r, q) == [c \in 1..4 |-> FMul(r, q[c])]

QAddF(p, q) == [c \in 1..4 |-> FAdd(p[c], q[c])]

QZero == [c \in 1..4 |-> Zero]

\* --------------------------------------------------------- utils and qfft

\* utils.sympSplit: q = a + i b + j c + k d gives g1 = a + 1j b, g2 = d + 1j c
sympSplit(q) ==
    << [k \in 1..Len(q) |-> <<q[k][1], q[k][2]>>],
       [k \in 1..Len(q) |-> <<q[k][4], q[k][3]>>] >>

\* exp(-2 pi 1j m / N) for N dividing 4, where it is a Gaussian integer
Twiddle(N, m) ==
    LET quarter == (m * (4 \div N)) % 4
    IN  CASE quarter = 0 -> <<1, 0>>
          [] quarter = 1 -> <<0, -1>>
          [] quarter = 2 -> <<-1, 0>>
          [] quarter = 3 -> <<0, 1>>

RECURSIVE DftSum(_, _, _)
DftSum(g, k, n) ==
    IF n = 0 THEN <<0, 0>>
    ELSE CAdd(DftSum(g, k, n - 1), CMul(g[n], Twiddle(Len(g), (k - 1) * (n - 1))))

\* the discrete Fourier transform of a complex array
Dft(g) == [k \in 1..Len(g) |-> DftSum(g, k, Len(g))]

\* qfft.Qfft: the transform of each symplectic part, recombined by the
\* inverse of the split
Qfft(x) ==
    LET s  == sympSplit(x)
        G1 == Dft(s[1])
        G2 == Dft(s[2])
    IN  [k \in 1..Len(x) |-> <<G1[k][1], G1[k][2], G2[k][2], G2[k][1]>>]

\* utils.StokesNorm: the purely imaginary quaternion q j conj(q)
StokesNorm(q) == QMul(QMul(q, QuatY), QConj(q))

\* utils.normalizeStokes: Si / S0 where S0 exceeds tol, else the sentinel 0
normalizeStokes(S0, S1, S2, S3, tol) ==
    LET Over(S) == [k \in 1..Len(S0) |->
                       IF FGreater(S0[k], tol) THEN FDiv(S[k], S0[k]) ELSE Zero]
    IN  <<Over(S1), Over(S2), Over(S3)>>

\* spectrum.dpss(N, bw, Nmt): a bank of Nmt real tapers of length N, as an
\* N x Nmt matrix (the generator is a black box; the entries, of both
\* signs as those of Slepian tapers are, stand for its output)
dpss(N, bw, Nmt) ==
    [i \in 1..N |-> [n \in 1..Nmt |-> 3 * ((i + n + bw[1]) % 2) - 1]]

\* ------------------------------------------------------------------ numpy

\* np.floor of a float
Floor(r) == r[1] \div r[2]

\* np.fft.fftfreq(N): 0, 1/N, ..., then the negative frequencies
fftfreq(N) ==
    [k \in 1..N |-> IF k - 1 <= (N - 1) \div 2 THEN Frac(k - 1, N)
                                             ELSE Frac(k - 1 - N, N)]

\* np.zeros(N) and np.zeros_like of a real array
ZerosReal(N) == [k \in 1..N |-> Zero]

\* np.zeros(N, dtype='quaternion')
ZerosQuat(N) == [k \in 1..N |-> QZero]

\* np.size(scalar) of a Python number or list, held as a sequence
NpSize(scalar) == Len(scalar)

\* self.t != other.t, element by element
NotEqualArrays(t1, t2) == [k \in 1..Len(t1) |-> t1[k] # t2[k]]

\* np.any(...) returns a numpy.bool_, never the Python object True
NpAny(arr) == [type |-> "numpy.bool_", val |-> \E k \in 1..Len(arr) : arr[k]]

\* the Python singleton True
PyTrue == [type |-> "bool", val |-> TRUE]

\* `obj is True`: identity with the singleton
IsTrue(obj) == obj = PyTrue

RECURSIVE SumComp(_, _, _)
SumComp(row, c, n) ==
    IF n = 0 THEN Zero ELSE FAdd(SumComp(row, c, n - 1), row[n][c])

\* quaternion.as_quat_array(np.mean(quaternion.as_float_array(densities), axis=1)):
\* the mean over the tapers of each of the four real components
MeanOverTapers(densities) ==
    [i \in 1..Len(densities) |->
        [c \in 1..4 |-> FDiv(SumComp(densities[i], c, Len(densities[i])),
                             FloatOf(Len(densities[i])))]]

\* --------------------------------------------------------------- exceptions

InvalidInputType == "ValueError: signal array should be of quaternion type."

MismatchedAxisError == "ValueError: Cannot sum Periodograms with differents time arrays"

UnsupportedOperandError == "ValueError: Only scalar multiplication is supported"

NegativeDimensions == "ValueError: negative dimensions are not allowed"

NoError == "none"

\* what a call that raised leaves behind: no object, the fields that had
\* been assigned on the object under construction, what had run
Raised(err, fields, ranQfft, calledDpss) ==
    [outcome |-> "raised", error |-> err, est |-> <<>>, fieldsSet |-> fields,
     qfft |-> ranQfft, dpss |-> calledDpss]

Returned(e, fields, ranQfft, calledDpss) ==
    [outcome |-> "returned", error |-> NoError, est |-> e, fieldsSet |-> fields,
     qfft |-> ranQfft, dpss |-> calledDpss]

PeriodogramFields ==
    {"t", "signal", "f", "density", "S0", "S1", "S2", "S3", "S1n", "S2n", "S3n", "Phi"}

MultitaperFields == PeriodogramFields \cup {"densities", "dpss"}

\* RejectSignal with the check placed after the first assignments: the
\* variant C7 is tested against
RejectSignalLate(x) == Raised(InvalidInputType, {"t", "signal"}, FALSE, FALSE)

\* the first statement of both constructors, for a signal that is not of
\* quaternion dtype: raise before any field is assigned
RejectSignal(x) == Raised(InvalidInputType, {}, FALSE, FALSE)

\* -------------------------------------------------------------- Periodogram

\* Periodogram._getStokes and Multitaper._getStokes: <<S0, S1, S2, S3>>
getStokes(density) ==
    LET g == sympSplit(density)
        g1 == g[1]
        g2 == g[2]
        S0 == [k \in 1..Len(density) |-> g1[k][1]]
        S1 == [k \in 1..Len(density) |-> g1[k][2]]
        S3 == [k \in 1..Len(density) |-> g2[k][1]]
        S2 == [k \in 1..Len(density) |-> g2[k][2]]
    IN  <<S0, S1, S2, S3>>

\* the density one transform yields, before scaling:
\* np.norm(QFTx) + utils.StokesNorm(QFTx) * quaternion.y
RawDensity(QFTx) ==
    [k \in 1..Len(QFTx) |->
        QAddReal(QNorm(QFTx[k]), QMul(StokesNorm(QFTx[k]), QuatY))]

\* PeriodogramCompute with the sampling step taken as t[0] - t[1]: the
\* variant C3 is tested against
PeriodogramComputeReversed(t, signal) ==
    LET dt == t[1] - t[2]
        N == Len(signal.data)
        QFTx == Qfft(signal.data)
        raw == RawDensity(QFTx)
    IN  [k \in 1..N |-> QScale(Frac(dt, N), raw[k])]

\* Periodogram.compute: the new value of self.density
PeriodogramCompute(t, signal) ==
    LET dt == t[2] - t[1]
        N == Len(signal.data)
        QFTx == Qfft(signal.data)
        raw == RawDensity(QFTx)
    IN  [k \in 1..N |-> QScale(Frac(dt, N), raw[k])]

\* self.f = np.fft.fftfreq(N) / dt
Frequencies(t, x) ==
    [k \in 1..Len(x.data) |->
        FDiv(fftfreq(Len(x.data))[k], FloatOf(t[2] - t[1]))]

\* the attributes a constructor leaves on self: S is the value of
\* self._getStokes(), and the normalized fields are np.zeros_like(self.S0)
Attributes(kind, t, x, density, S, densities, bank, id) ==
    [kind |-> kind, t |-> t, signal |-> x, f |-> Frequencies(t, x),
     density |-> density, oid |-> id, did |-> id,
     S0 |-> S[1], S1 |-> S[2], S2 |-> S[3], S3 |-> S[4],
     S1n |-> ZerosReal(Len(S[1])), S2n |-> ZerosReal(Len(S[1])),
     S3n |-> ZerosReal(Len(S[1])), Phi |-> ZerosReal(Len(S[1])),
     densities |-> densities, dpss |-> bank]

\* Periodogram.__init__ from the Stokes extraction on
PeriodogramOf(t, x, density, id) ==
    Attributes("Periodogram", t, x, density, getStokes(density), <<>>, <<>>, id)

\* Periodogram.__init__; id names the object and the array bound to density
PeriodogramInit(t, x, computeFlag, id) ==
    IF x.dtype # "quaternion"
    THEN RejectSignal(x)
    ELSE Returned(PeriodogramOf(t, x,
                                IF computeFlag THEN PeriodogramCompute(t, x)
                                               ELSE ZerosQuat(Len(x.data)),
                                id),
                  PeriodogramFields, computeFlag, FALSE)

\* --------------------------------------------------------------- Multitaper

\* bw=2.5, the default of Multitaper.__init__ and Multitaper.compute
DefaultBw == Frac(5, 2)

\* self.signal * self.dpss[:, n]
Tapered(data, bank, n) ==
    [i \in 1..Len(data) |-> [c \in 1..4 |-> data[i][c] * bank[i][n]]]

\* Multitaper.compute: the new values of self.dpss and self.densities
MultitaperCompute(t, signal, oldDpss, bw) ==
    LET N == Len(oldDpss)
        Nmt == Len(oldDpss[1])
        dt == t[2] - t[1]
        bank == dpss(N, bw, Nmt)
        col(n) == RawDensity(Qfft(Tapered(signal.data, bank, n)))
    IN  [dpss |-> bank,
         densities |-> [i \in 1..N |-> [n \in 1..Nmt |->
                           QScale(FloatOf(dt), col(n)[i])]]]

\* Nmt = int(np.floor(2 * bw)) - 1
NumTapers(bw) == Floor(FMul(FloatOf(2), bw)) - 1

\* self.densities and self.dpss as np.zeros leaves them
ZeroTapers(N, Nmt) ==
    [dpss |-> [i \in 1..N |-> [n \in 1..Nmt |-> 0]],
     densities |-> [i \in 1..N |-> [n \in 1..Nmt |-> QZero]]]

\* Multitaper.__init__ from the Stokes extraction on
MultitaperWith(t, x, c, density, id) ==
    Attributes("Multitaper", t, x, density, getStokes(density), c.densities, c.dpss, id)

\* Multitaper.__init__ from the mean over the tapers on; c holds dpss and
\* densities
MultitaperOf(t, x, c, id) == MultitaperWith(t, x, c, MeanOverTapers(c.densities), id)

\* Multitaper.__init__; id names the object and the array bound to density
MultitaperInit(t, x, bw, computeFlag, id) ==
    IF x.dtype # "quaternion"
    THEN RejectSignal(x)
    ELSE IF NumTapers(bw) < 0
         THEN \* np.zeros((N, Nmt)) refuses a negative dimension
              Raised(NegativeDimensions, {"t", "signal", "f"}, FALSE, FALSE)
         ELSE Returned(
                MultitaperOf(t, x,
                    IF computeFlag
                    THEN MultitaperCompute(t, x,
                             ZeroTapers(Len(x.data), NumTapers(bw)).dpss, bw)
                    ELSE ZeroTapers(Len(x.data), NumTapers(bw)),
                    id),
                MultitaperFields, computeFlag /\ NumTapers(bw) > 0, computeFlag)

\* ------------------------------------------------- + , scalar * , normalize

\* the outcome of a method call: what the call returned or raised, and the
\* operands as the call left them
Call(r, self, other) ==
    [outcome |-> r.outcome, error |-> r.error, est |-> r.est,
     fieldsSet |-> r.fieldsSet, qfft |-> r.qfft, dpss |-> r.dpss,
     self |-> self, other |-> other]

\* new.S0, new.S1, new.S2, new.S3 = S
WithStokes(new, S) ==
    [new EXCEPT !.S0 = S[1], !.S1 = S[2], !.S2 = S[3], !.S3 = S[4]]

\* new.density = ...; new.S0, new.S1, new.S2, new.S3 = new._getStokes()
WithDensity(new, density, id) ==
    WithStokes([new EXCEPT !.density = density, !.did = id], getStokes(density))

\* the tail of __add__ and __mul__: c is the outcome of the constructor
\* call, density the new density; return new
Combined(c, density, id, self, other) ==
    Call(Returned(WithDensity(c.est, density, id), c.fieldsSet, c.qfft, c.dpss),
         self, other)

\* SumDensity that forgets the right operand: the variant C4 is tested
\* against
SumDensityLeftOnly(d1, d2) == [k \in 1..Len(d1) |-> d1[k]]

\* self.density + other.density
SumDensity(d1, d2) == [k \in 1..Len(d1) |-> QAddF(d1[k], d2[k])]

\* scalar * self.density, the scalar a number or a one-element list
ScaleDensity(scalar, d) == [k \in 1..Len(d) |-> QScaleF(FloatOf(scalar[1]), d[k])]

\* Periodogram.__add__
PeriodogramAdd(self, other, id) ==
    IF IsTrue(NpAny(NotEqualArrays(self.t, other.t)))
    THEN Call(Raised(MismatchedAxisError, {}, FALSE, FALSE), self, other)
    ELSE Combined(PeriodogramInit(self.t, self.signal, FALSE, id),
                  SumDensity(self.density, other.density), id, self, other)

\* PeriodogramMul scaling self.density in place and handing the same array
\* to the result: the variant C6 is tested against
PeriodogramMulInPlace(self, scalar, id) ==
    IF NpSize(scalar) > 1
    THEN Call(Raised(UnsupportedOperandError, {}, FALSE, FALSE), self, self)
    ELSE Combined(PeriodogramInit(self.t, self.signal, FALSE, id),
                  ScaleDensity(scalar, self.density), self.did,
                  WithDensity(self, ScaleDensity(scalar, self.density), self.did),
                  WithDensity(self, ScaleDensity(scalar, self.density), self.did))

\* Periodogram.__mul__
PeriodogramMul(self, scalar, id) ==
    IF NpSize(scalar) > 1
    THEN Call(Raised(UnsupportedOperandError, {}, FALSE, FALSE), self, self)
    ELSE Combined(PeriodogramInit(self.t, self.signal, FALSE, id),
                  ScaleDensity(scalar, self.density), id, self, self)

\* Periodogram.__rmul__
PeriodogramRmul(self, scalar, id) == PeriodogramMul(self, scalar, id)

\* Multitaper.__add__
MultitaperAdd(self, other, id) ==
    IF IsTrue(NpAny(NotEqualArrays(self.t, other.t)))
    THEN Call(Raised(MismatchedAxisError, {}, FALSE, FALSE), self, other)
    ELSE Combined(MultitaperInit(self.t, self.signal, DefaultBw, FALSE, id),
                  SumDensity(self.density, other.density), id, self, other)

\* Multitaper.__mul__
MultitaperMul(self, scalar, id) ==
    IF NpSize(scalar) > 1
    THEN Call(Raised(UnsupportedOperandError, {}, FALSE, FALSE), self, self)
    ELSE Combined(MultitaperInit(self.t, self.signal, DefaultBw, FALSE, id),
                  ScaleDensity(scalar, self.density), id, self, self)

\* Multitaper.__rmul__
MultitaperRmul(self, scalar, id) == MultitaperMul(self, scalar, id)

\* self + other: Python dispatches on the class of the left operand
add(self, other, id) ==
    IF self.kind = "Periodogram" THEN PeriodogramAdd(self, other, id)
                                 ELSE MultitaperAdd(self, other, id)

\* self * scalar
mul(self, scalar, id) ==
    IF self.kind = "Periodogram" THEN PeriodogramMul(self, scalar, id)
                                 ELSE MultitaperMul(self, scalar, id)

\* scalar * self: the number's own __mul__ gives up and __rmul__ runs
rmul(self, scalar, id) ==
    IF self.kind = "Periodogram" THEN PeriodogramRmul(self, scalar, id)
                                 ELSE MultitaperRmul(self, scalar, id)

\* self.Phi = np.sqrt(self.S1n**2 + self.S2n**2 + self.S3n**2)
Polarization(S1n, S2n, S3n) ==
    [k \in 1..Len(S1n) |->
        FSqrt(FAdd(FAdd(FMul(S1n[k], S1n[k]), FMul(S2n[k], S2n[k])),
                   FMul(S3n[k], S3n[k])))]

\* self.S1n, self.S2n, self.S3n = n; then self.Phi
WithNormalized(self, n) ==
    [self EXCEPT !.S1n = n[1], !.S2n = n[2], !.S3n = n[3],
                 !.Phi = Polarization(n[1], n[2], n[3])]

\* normalize overwriting S1, S2, S3 with their normalized values as well:
\* the variant C8 is tested against
normalizeInPlace(self, tol) ==
    WithNormalized(
        WithStokes(self, <<self.S0>> \o normalizeStokes(self.S0, self.S1, self.S2, self.S3, tol)),
        normalizeStokes(self.S0, self.S1, self.S2, self.S3, tol))

\* Periodogram.normalize and Multitaper.normalize: self after the call
normalize(self, tol) ==
    WithNormalized(self, normalizeStokes(self.S0, self.S1, self.S2, self.S3, tol))

\* self.dpss and self.densities rebound to what Multitaper.compute made
WithTapers(self, c) == [self EXCEPT !.dpss = c.dpss, !.densities = c.densities]

\* a manual compute(): self after the call; id names the array the
\* periodogram rebinds density to
compute(self, id) ==
    IF self.kind = "Periodogram"
    THEN [self EXCEPT !.density = PeriodogramCompute(self.t, self.signal), !.did = id]
    ELSE WithTapers(self, MultitaperCompute(self.t, self.signal, self.dpss, DefaultBw))

\* ------------------------------------------------------------------- state

\* the number of operations one run performs
MaxOps == 3

\* time axes: uniformly spaced, strictly increasing
TimeAxis1 == <<0, 1>>

TimeAxis2 == <<0, 2>>

\* quaternion signals of two samples
Signal1 == [dtype |-> "quaternion", data |-> << <<1, 0, 0, 0>>, <<0, 1, 0, 0>> >>]

Signal2 == [dtype |-> "quaternion", data |-> << <<1, 0, 1, 0>>, <<0, 1, 0, 2>> >>]

\* an array that is not of quaternion dtype
RealSignal == [dtype |-> "float64", data |-> << <<1>>, <<2>> >>]

\* the (t, x) a caller constructs an estimate from
Inputs == { <<TimeAxis1, Signal1>>, <<TimeAxis2, Signal2>>, <<TimeAxis1, RealSignal>> }

\* bandwidths: 0.25, 0.75 and 1.5 give -1, 0 and 2 tapers
Bandwidths == {Frac(1, 4), Frac(3, 4), Frac(3, 2)}

\* right operands of *: numbers, and a list of two
Scalars == {<<-1>>, <<2>>, <<1, 2>>}

Tolerances == {Zero, FloatOf(1)}

VARIABLES
    store,   \* the estimates the caller holds, in order of creation
    nops,    \* the number of operations performed
    last,    \* the last operation: its arguments and what it did
    normalized  \* history: the places in store normalize() was invoked on

vars == <<store, nops, last, normalized>>

Last(op, r, i, j, dtype, bw, scalar, flag) ==
    [op |-> op, outcome |-> r.outcome, error |-> r.error,
     fieldsSet |-> r.fieldsSet, qfft |-> r.qfft, dpss |-> r.dpss,
     i |-> i, j |-> j, dtype |-> dtype, bw |-> bw, scalar |-> scalar,
     flag |-> flag]

NoCall == Raised(NoError, {}, FALSE, FALSE)

Init ==
    /\ store = <<>>
    /\ nops = 0
    /\ normalized = {}
    /\ last = Last("none", [NoCall EXCEPT !.outcome = "none"], 0, 0, "", Zero, <<>>, FALSE)

\* the store after a constructor call
Constructed(st, r) == IF r.outcome = "returned" THEN Append(st, r.est) ELSE st

\* the store with the operands as a method call left them
Kept(st, i, j, r) == [st EXCEPT ![i] = r.self, ![j] = r.other]

\* the store after a method call on st[i] (and st[j])
Called(st, i, j, r) ==
    IF r.outcome = "returned" THEN Append(Kept(st, i, j, r), r.est)
                              ELSE Kept(st, i, j, r)

\* a constructor call with outcome r
ConstructorStep(op, r, dtype, bw, flag) ==
    /\ store' = Constructed(store, r)
    /\ last' = Last(op, r, 0, 0, dtype, bw, <<>>, flag)
    /\ nops' = nops + 1
    /\ UNCHANGED normalized

\* a call of + or * with outcome r
MethodStep(op, r, i, j, scalar) ==
    /\ store' = Called(store, i, j, r)
    /\ last' = Last(op, r, i, j, "", Zero, scalar, FALSE)
    /\ nops' = nops + 1
    /\ UNCHANGED normalized

\* Periodogram(t, x, computeFlag)
NewPeriodogram(t, x, flag) ==
    /\ nops < MaxOps
    /\ ConstructorStep("Periodogram", PeriodogramInit(t, x, flag, nops + 1),
                       x.dtype, Zero, flag)

\* Multitaper(t, x, bw, computeFlag)
NewMultitaper(t, x, bw, flag) ==
    /\ nops < MaxOps
    /\ ConstructorStep("Multitaper", MultitaperInit(t, x, bw, flag, nops + 1),
                       x.dtype, bw, flag)

\* store[i] + store[j]
Add(i, j) ==
    /\ nops < MaxOps
    /\ MethodStep("add", add(store[i], store[j], nops + 1), i, j, <<>>)

\* store[i] * scalar
Mul(i, scalar) ==
    /\ nops < MaxOps
    /\ MethodStep("mul", mul(store[i], scalar, nops + 1), i, i, scalar)

\* scalar * store[i]
Rmul(scalar, i) ==
    /\ nops < MaxOps
    /\ MethodStep("rmul", rmul(store[i], scalar, nops + 1), i, i, scalar)

\* store[i].normalize(tol)
Normalize(i, tol) ==
    /\ nops < MaxOps
    /\ store' = [store EXCEPT ![i] = normalize(store[i], tol)]
    /\ last' = Last("normalize", [NoCall EXCEPT !.outcome = "returned"],
                    i, i, "", Zero, <<>>, FALSE)
    /\ nops' = nops + 1
    /\ normalized' = normalized \cup {i}

\* store[i].compute()
Compute(i) ==
    /\ nops < MaxOps
    /\ store' = [store EXCEPT ![i] = compute(store[i], nops + 1)]
    /\ last' = Last("compute",
                    [NoCall EXCEPT !.outcome = "returned",
                                   !.dpss = store[i].kind = "Multitaper",
                                   !.qfft = \/ store[i].kind = "Periodogram"
                                            \/ Len(store[i].dpss[1]) > 0],
                    i, i, "", Zero, <<>>, FALSE)
    /\ nops' = nops + 1
    /\ UNCHANGED normalized

Next ==
    \/ \E tx \in Inputs, flag \in BOOLEAN : NewPeriodogram(tx[1], tx[2], flag)
    \/ \E tx \in Inputs, bw \in Bandwidths, flag \in BOOLEAN :
          NewMultitaper(tx[1], tx[2], bw, flag)
    \/ \E i, j \in 1..Len(store) : Add(i, j)
    \/ \E i \in 1..Len(store), scalar \in Scalars : Mul(i, scalar)
    \/ \E i \in 1..Len(store), scalar \in Scalars : Rmul(scalar, i)
    \/ \E i \in 1..Len(store), tol \in Tolerances : Normalize(i, tol)
    \/ \E i \in 1..Len(store) : Compute(i)

Spec == Init /\ [][Next]_vars

\* ------------------------------------------------------------------ claims

\* the estimate the last call returned
Newest == store[Len(store)]

\* the last call was + or a scalar *
LastCombines == last.op \in {"add", "mul", "rmul"}

\* no component of any entry of a quaternion array is NaN
Finite(density) ==
    \A k \in 1..Len(density) : \A c \in 1..4 : ~IsNaN(density[k][c])

NonZero(density) == \E k \in 1..Len(density) : density[k] # QZero

\* no entry of S0 is negative, in any estimate held
AllS0NonNegative ==
    \A i \in 1..Len(store) : \A k \in 1..Len(store[i].S0) :
        ~FNegative(store[i].S0[k])

\* C1: a + b with time axes that differ in a sample raises the
\* mismatched-axis error, and returns no estimate.
C1_MismatchedAxesRaise ==
    (last.op = "add" /\ store[last.i].t # store[last.j].t)
        => (last.outcome = "raised" /\ last.error = MismatchedAxisError)

\* C2: Multitaper(t, x, bw) with fewer than one taper, Nmt = floor(2 bw) - 1
\* < 1, raises before the taper generator is called and returns no estimate.
C2_NoTapersRaises ==
    (last.op = "Multitaper" /\ last.dtype = "quaternion" /\ NumTapers(last.bw) < 1)
        => (last.outcome = "raised" /\ ~last.dpss)

\* C3, as stated: S0 has no negative entry in any estimate obtained by
\* construction, by + or by scalar *.
C3_S0NeverNegative == AllS0NonNegative

\* C3, amended: an estimate obtained by construction has no negative entry
\* in S0, and + and scalar * by a non-negative scalar, applied to estimates
\* without a negative entry in S0, return an estimate without one.
C3_S0NonNegativeUnlessNegativeScalar ==
    [][ ( /\ AllS0NonNegative
          /\ ~( /\ last'.op \in {"mul", "rmul"}
                /\ last'.outcome = "returned"
                /\ last'.scalar[1] < 0 ) )
        => AllS0NonNegative' ]_vars

\* C3's case: a product by the non-negative scalar 2 of an estimate with
\* power in some bin, no estimate holding a negative S0.
C3_Witness ==
    /\ last.op \in {"mul", "rmul"}
    /\ last.outcome = "returned"
    /\ last.scalar = <<2>>
    /\ \E k \in 1..Len(Newest.S0) : FGreater(Newest.S0[k], Zero)
    /\ AllS0NonNegative

\* C4: for every estimate E of finite density, the density of E + E is the
\* density of 2 * E at every frequency index, 2 * E is E * 2, and the Stokes
\* parameters of both are the extraction of that density.
C4_SumIsDouble ==
    \A i \in 1..Len(store) :
        Finite(store[i].density) =>
            LET E == store[i]
                sum == add(E, E, nops + 1)
                left == rmul(E, <<2>>, nops + 1)
                right == mul(E, <<2>>, nops + 1)
                stokes(e) == <<e.S0, e.S1, e.S2, e.S3>>
            IN  /\ sum.outcome = "returned"
                /\ left.outcome = "returned"
                /\ sum.est.density = left.est.density
                /\ left.est = right.est
                /\ stokes(sum.est) = getStokes(sum.est.density)
                /\ stokes(left.est) = getStokes(left.est.density)
                /\ stokes(sum.est) = stokes(left.est)

\* C4's case: E with power, then E + E, then 2 * E, held side by side.
C4_Witness ==
    /\ Len(store) = 3
    /\ NonZero(store[1].density) /\ Finite(store[1].density)
    /\ store[2].density = SumDensity(store[1].density, store[1].density)
    /\ last.op = "rmul" /\ last.i = 1 /\ last.scalar = <<2>>
    /\ last.outcome = "returned"
    /\ store[3].density = store[2].density

\* C5: extraction respects the embedding: at every index the density is
\* S0 + i S3 + j S1 + k S2.
C5_EmbeddingConvention ==
    \A i \in 1..Len(store) : \A k \in 1..Len(store[i].density) :
        store[i].density[k] =
            <<store[i].S0[k], store[i].S3[k], store[i].S1[k], store[i].S2[k]>>

\* C6: + and scalar * leave every field of every estimate as it was, whether
\* they return or raise; when they return, the result is a new object whose
\* density array is none of the arrays the operands hold.
C6_OperandsUntouched ==
    [][ (LastCombines' /\ nops' = nops + 1)
        => /\ \A i \in 1..Len(store) : store'[i] = store[i]
           /\ last'.outcome = "raised" => Len(store') = Len(store)
           /\ last'.outcome = "returned" =>
                 /\ Len(store') = Len(store) + 1
                 /\ \A i \in 1..Len(store) :
                       /\ store'[Len(store')].oid # store[i].oid
                       /\ store'[Len(store')].did # store[i].did ]_vars

\* C6's case: a + b returned the sum of two estimates with power, b * [1, 2]
\* aside.
C6_Witness ==
    /\ last.op = "add" /\ last.outcome = "returned"
    /\ Len(store) = 3
    /\ last.i = 1 /\ last.j = 2
    /\ NonZero(store[1].density) /\ NonZero(store[2].density)
    /\ Newest.density = SumDensity(store[1].density, store[2].density)

\* C7: a constructor given a signal that is not of quaternion dtype raises
\* InvalidInputType first: no field assigned, no transform, no tapers, no
\* estimate, with computeFlag true or false.
C7_RejectsNonQuaternion ==
    [][ ( /\ last'.op \in {"Periodogram", "Multitaper"}
          /\ nops' = nops + 1
          /\ last'.dtype # "quaternion" )
        => /\ last'.outcome = "raised"
           /\ last'.error = InvalidInputType
           /\ last'.fieldsSet = {}
           /\ ~last'.qfft
           /\ ~last'.dpss
           /\ store' = store ]_vars

\* C7's case: a deferred Multitaper construction from a float64 array.
C7_Witness ==
    /\ last.op = "Multitaper" /\ last.dtype = "float64" /\ ~last.flag
    /\ last.outcome = "raised"

NormalizedZero(e) ==
    LET z == ZerosReal(Len(e.signal.data))
    IN  e.S1n = z /\ e.S2n = z /\ e.S3n = z /\ e.Phi = z

\* every field but S1n, S2n, S3n and Phi
SameButNormalized(e1, e2) ==
    e1 = [e2 EXCEPT !.S1n = e1.S1n, !.S2n = e1.S2n, !.S3n = e1.S3n, !.Phi = e1.Phi]

\* C8: S1n, S2n, S3n and Phi are zero arrays of length N until normalize()
\* is invoked on that estimate, results of + and * included; normalize()
\* changes nothing but these four fields of the estimate it is invoked on.
C8_NormalizedFields ==
    /\ [](\A i \in 1..Len(store) : i \notin normalized => NormalizedZero(store[i]))
    /\ [][ (last'.op = "normalize" /\ nops' = nops + 1)
           => /\ Len(store') = Len(store)
              /\ \A i \in 1..Len(store) :
                    IF i = last'.i THEN SameButNormalized(store'[i], store[i])
                                   ELSE store'[i] = store[i] ]_vars

\* C8's case: a normalized estimate, its normalized fields filled, summed
\* with itself: the sum's normalized fields are zero.
C8_Witness ==
    /\ last.op = "add" /\ last.outcome = "returned"
    /\ last.i \in normalized
    /\ ~NormalizedZero(store[last.i])
    /\ Len(store) \notin normalized
    /\ NormalizedZero(Newest)

\* C9: every estimate's (S0, S1, S2, S3) is the extraction of its current
\* density, after any sequence of operations, a manual compute() included.
C9_StokesFollowDensity ==
    \A i \in 1..Len(store) :
        <<store[i].S0, store[i].S1, store[i].S2, store[i].S3>>
            = getStokes(store[i].density)

\* C10: a Multitaper estimate returned by a constructor with Nmt >= 1, by +
\* or by scalar * holds as many taper columns as the estimate it was built
\* from, and its density is the mean of densities over the tapers.
C10_DensityIsTaperMean ==
    ( /\ last.outcome = "returned"
      /\ \/ last.op = "Multitaper" /\ NumTapers(last.bw) >= 1
         \/ LastCombines /\ Newest.kind = "Multitaper" )
    => /\ Newest.density = MeanOverTapers(Newest.densities)
       /\ LastCombines =>
             Len(Newest.densities[1]) = Len(store[last.i].densities[1])

====
